---- MODULE Spec2Model ----
(***************************************************************************)
(* Model of server/src/core/server/app/helpers/manifestLoader.ts:          *)
(* ManifestLoader, its file-mode cache and its dev-mode fetch/retry loop.  *)
(*                                                                         *)
(* JavaScript values are modelled as follows.                              *)
(*   - "T | null" is a sequence of length <= 1: <<>> is null, <<v>> is v.  *)
(*   - An object used as a mapping (manifest.entrypoints) is the sequence  *)
(*     of its entries in iteration order (the order of Object.keys).       *)
(*   - A property that may be absent carries a has... flag; an absent      *)
(*     property reads as undefined, which is falsy, while an empty array   *)
(*     is truthy.                                                          *)
(* One async invocation is a record of the sequence calls; it runs         *)
(* atomically from one await to the next, as the event loop runs it.       *)
(***************************************************************************)
EXTENDS Integers, Sequences, FiniteSets, TLC

VARIABLES
    phase,                  \* "new", "constructed" or "failed" (constructor threw)
    options,                \* this.options
    disk,                   \* the manifest file as it is on disk
    serverReady,            \* the dev server serves a complete manifest from now on
    manifest,               \* this.manifest
    entrypoints,            \* this.entrypoints
    invalidManifestCounter, \* this.invalidManifestCounter
    accessors,              \* the closures createEntrypointLoader has returned
    calls,                  \* invocations of load() and of the accessors
    net,                    \* HTTP requests in flight
    fetches,                \* number of fetch(url) calls issued so far
    fileReads,              \* number of fs.readFileSync calls so far
    thrown                  \* errors thrown synchronously to the caller

vars == <<phase, options, disk, serverReady, manifest, entrypoints, invalidManifestCounter,
          accessors, calls, net, fetches, fileReads, thrown>>

\* The state of the loader object itself.
loaderState == <<phase, options, manifest, entrypoints, invalidManifestCounter>>

----------------------------------------------------------------------------
\* Bounds of the model.

\* Total number of fetch(url) calls explored.
MaxFetches == 3

\* Total number of load() / accessor invocations explored.
MaxCalls == 2

\* Number of accessors created.
MaxAccessors == 1

\* The ceiling of line 20. The source sets it to 9999; it is scaled down here so
\* that a loader goes past it, and on to a later invocation, within MaxFetches
\* fetches.
INVALID_MANIFEST_MAX_RETRIES == 1

----------------------------------------------------------------------------
\* Data: assets, raw entrypoint descriptors, manifests.

Asset(src, integrity) == [src |-> src, integrity |-> integrity]

A1 == Asset("a.js", "sha-a")
A2 == Asset("b.js", "sha-b")
S1 == Asset("a.css", "sha-c")

\* A raw entrypoint descriptor as it appears under manifest.entrypoints[name].
Raw(name, hasAssets, hasJs, js, css) ==
    [name |-> name, hasAssets |-> hasAssets, hasJs |-> hasJs, js |-> js, css |-> css]

Mf(hasEntrypoints, list) == [hasEntrypoints |-> hasEntrypoints, entrypoints |-> list]

\* {} : no entrypoints key.
MNoEntrypoints == Mf(FALSE, <<>>)
\* {entrypoints: {}}
MEmptyEntrypoints == Mf(TRUE, <<>>)
\* {entrypoints: {main: {}}} : descriptor without assets.
MNoAssets == Mf(TRUE, <<Raw("main", FALSE, FALSE, <<>>, <<>>)>>)
\* {entrypoints: {main: {assets: {css: [...]}}}} : no js key.
MNoJs == Mf(TRUE, <<Raw("main", TRUE, FALSE, <<>>, <<S1>>)>>)
\* {entrypoints: {main: {assets: {js: [], css: [...]}}}} : js is an empty array.
MEmptyJs == Mf(TRUE, <<Raw("main", TRUE, TRUE, <<>>, <<S1>>)>>)
\* {entrypoints: {"": {assets: {js: [...]}}}} : the first key is the empty string.
MEmptyName == Mf(TRUE, <<Raw("", TRUE, TRUE, <<A1>>, <<>>)>>)
\* A ready manifest with two entrypoints.
MReadyA == Mf(TRUE, <<Raw("aux", TRUE, TRUE, <<A2>>, <<>>),
                      Raw("main", TRUE, TRUE, <<A1, A2>>, <<S1>>)>>)

\* The JSON bodies the dev server may answer with.
Bodies == {MNoEntrypoints, MEmptyEntrypoints, MNoAssets, MNoJs, MEmptyJs,
           MEmptyName, MReadyA}

\* The names callers ask for.
Names == {"main", "absent"}

\* What may be on disk: nothing, a file that is not JSON, the JSON text
\* "null", or a manifest.
Disk(kind, content) == [kind |-> kind, content |-> content]

DiskStates == {Disk("missing", <<>>), Disk("notjson", <<>>), Disk("jsonnull", <<>>),
               Disk("json", <<MReadyA>>), Disk("json", <<MNoEntrypoints>>)}

----------------------------------------------------------------------------
\* entrypoints.ts, after section 4.2 of the specification: the index of a
\* manifest's entrypoints by name.

\* The normalized view of one raw descriptor: absent groups are empty lists.
Normalize(raw) ==
    [js  |-> IF raw.hasAssets /\ raw.hasJs THEN raw.js ELSE <<>>,
     css |-> IF raw.hasAssets THEN raw.css ELSE <<>>]

\* new Entrypoints(manifest): the index, in the order of the manifest.
Entrypoints(m) ==
    IF m.hasEntrypoints
    THEN [i \in 1..Len(m.entrypoints) |->
            [name |-> m.entrypoints[i].name, entrypoint |-> Normalize(m.entrypoints[i])]]
    ELSE <<>>

\* Entrypoints.get(name): the entrypoint or null.
EntrypointsGet(index, name) ==
    IF \E i \in 1..Len(index) : index[i].name = name
    THEN <<index[CHOOSE i \in 1..Len(index) : index[i].name = name].entrypoint>>
    ELSE <<>>

----------------------------------------------------------------------------
\* A loadManifestFromFile whose catch block hands back an empty object.
loadManifestFromFile_EmptyOnError(d) ==
    IF d.kind = "json" THEN d.content ELSE <<MNoEntrypoints>>

\* loadManifestFromFile: the parsed file, or null when reading or parsing
\* throws. JSON.parse of the text "null" is null as well.
loadManifestFromFile(d) ==
    IF d.kind = "json" THEN d.content ELSE <<>>

\* The dev-server script of lines 174-180, appended to entrypoint.js.
DevServerAsset == Asset("webpack-dev-server.js", "")

\* The dev-server script put in front of the entrypoint's own scripts.
InjectDevServer_Prepend(entrypoint) ==
    [entrypoint EXCEPT !.js = <<DevServerAsset>> \o entrypoint.js]

InjectDevServer(entrypoint) ==
    [entrypoint EXCEPT !.js = Append(entrypoint.js, DevServerAsset)]

\* Lines 171-182: what the dev-mode accessor computes from a loaded manifest.
DevAccessorValue(m, name, opts) ==
    LET entrypoint == EntrypointsGet(Entrypoints(m), name)
    IN  IF entrypoint # <<>> /\ opts.injectWebpackDevServerBundle
        THEN <<InjectDevServer(entrypoint[1])>>
        ELSE entrypoint

\* A lookup that ignores the name and takes the first entrypoint.
FileAccessorValue_First(index, name) ==
    IF Len(index) > 0 THEN <<index[1].entrypoint>> ELSE <<>>

\* Lines 186-188: what the file-mode accessor captures at creation.
FileAccessorValue(index, name) == EntrypointsGet(index, name)

IsDev == options.fromWebpackDevServerURL

----------------------------------------------------------------------------
\* Validation of a fetched manifest, lines 124-144.

\* Object.keys(manifest.entrypoints)[0] : <<>> is undefined.
FirstKey(m) == IF Len(m.entrypoints) > 0 THEN <<m.entrypoints[1].name>> ELSE <<>>

\* A first condition that looks at manifest.entrypoints only.
FirstCheck_JsUnchecked(m) ==
    IF ~m.hasEntrypoints THEN "invalid"
    ELSE IF FirstKey(m) = <<>> THEN "throw"
    ELSE IF ~m.entrypoints[1].hasAssets THEN "throw"
    ELSE "pass"

\* The condition of lines 124-127. "throw" is the TypeError of reading
\* .assets of undefined or .js of undefined.
FirstCheck(m) ==
    IF ~m.hasEntrypoints THEN "invalid"
    ELSE IF FirstKey(m) = <<>> THEN "throw"
    ELSE IF ~m.entrypoints[1].hasAssets THEN "throw"
    ELSE IF ~m.entrypoints[1].hasJs THEN "invalid"
    ELSE "pass"

\* A second condition that looks at the js list only.
SecondCheck_JsOnly(m) == ~m.entrypoints[1].hasJs

\* The condition of lines 137-140, evaluated only after FirstCheck passed:
\* the empty string is a falsy key.
SecondCheck(m) ==
    \/ FirstKey(m) = <<"">>
    \/ ~m.entrypoints[1].hasJs

----------------------------------------------------------------------------
Init ==
    /\ phase = "new"
    /\ options \in [fromWebpackDevServerURL : BOOLEAN,
                    injectWebpackDevServerBundle : BOOLEAN]
    /\ disk \in DiskStates
    \* A dev-mode loader never looks at the disk; one disk state stands for all.
    /\ options.fromWebpackDevServerURL => disk.kind = "missing"
    /\ serverReady = FALSE
    /\ manifest = <<>>
    /\ entrypoints = <<>>
    /\ invalidManifestCounter = 0
    /\ accessors = {}
    /\ calls = <<>>
    /\ net = {}
    /\ fetches = 0
    /\ fileReads = 0
    /\ thrown = {}

\* A constructor that does not check what loadManifestFromFile returned.
Construct_Unchecked ==
    /\ phase = "new"
    /\ IF ~options.fromWebpackDevServerURL
       THEN LET m == loadManifestFromFile(disk)
            IN  /\ fileReads' = fileReads + 1
                /\ phase' = "constructed"
                /\ manifest' = m
                /\ entrypoints' = IF m = <<>> THEN <<>> ELSE <<Entrypoints(m[1])>>
                /\ UNCHANGED thrown
       ELSE /\ phase' = "constructed"
            /\ UNCHANGED <<manifest, entrypoints, fileReads, thrown>>
    /\ UNCHANGED <<options, disk, serverReady, invalidManifestCounter, accessors, calls,
                   net, fetches>>

\* new ManifestLoader(manifestFilename, options), lines 88-107.
Construct ==
    /\ phase = "new"
    /\ IF ~options.fromWebpackDevServerURL
       THEN LET m == loadManifestFromFile(disk)
            IN  /\ fileReads' = fileReads + 1
                /\ IF m = <<>>
                   THEN /\ phase' = "failed"
                        /\ thrown' = thrown \cup {"Failed to load manifest file"}
                        /\ UNCHANGED <<manifest, entrypoints>>
                   ELSE /\ phase' = "constructed"
                        /\ manifest' = m
                        /\ entrypoints' = <<Entrypoints(m[1])>>
                        /\ UNCHANGED thrown
       ELSE /\ phase' = "constructed"
            /\ UNCHANGED <<manifest, entrypoints, fileReads, thrown>>
    /\ UNCHANGED <<options, disk, serverReady, invalidManifestCounter, accessors, calls,
                   net, fetches>>

----------------------------------------------------------------------------
\* Invocations.

\* A fresh invocation. kind is "load" or "accessor"; name is the entrypoint
\* name an accessor was created for.
NewCall(kind, name) ==
    [kind |-> kind, name |-> name, pc |-> "start",
     waitForMS |-> <<1000, 1>>,  \* the default parameter of line 149, as a fraction
     fetchIds |-> <<>>,          \* the fetches this invocation issued, in order;
                                 \* <<c, n>> is the n-th fetch of invocation c
     outcomes |-> <<>>,          \* what each completed fetch attempt came to
     body |-> <<>>,              \* the JSON body the latest attempt received, if any
     events |-> <<>>,            \* "fetch" and "wait", in the order they began
     result |-> <<>>,            \* the manifest load() resolved with
     resultFetch |-> <<>>,       \* the fetch that delivered it
     value |-> <<>>,             \* the entrypoint an accessor resolved with
     err |-> ""]

\* An HTTP request in flight.
Request(call, c) == [id |-> <<c, Len(call.fetchIds) + 1>>, owner |-> c]

\* Line 115: fetch(url) is issued and the invocation suspends on it.
IssueFetch(call, c) ==
    [call EXCEPT !.pc = "fetching",
                 !.body = <<>>,
                 !.fetchIds = Append(@, <<c, Len(call.fetchIds) + 1>>),
                 !.events = Append(@, "fetch")]

\* A retry delay that doubles instead of growing by half.
NextWait_Double(w) == <<w[1] * 2, w[2]>>

\* Line 157: the delay of the next retry, waitForMS * 1.5.
NextWait(w) == <<w[1] * 3, w[2] * 2>>

\* A retry loop that hands a null manifest back instead of retrying.
OnNull_NoRetry(call, outcome) ==
    [call EXCEPT !.pc = "resolved",
                 !.outcomes = Append(@, outcome)]

\* Lines 152-156: fetchManifest() returned null; the invocation logs and
\* suspends on waitFor(waitForMS).
OnNull(call, outcome) ==
    [call EXCEPT !.pc = "waiting",
                 !.outcomes = Append(@, outcome),
                 !.events = Append(@, "wait")]

\* fetchManifest() threw (or an awaited promise rejected): the rejection
\* passes through fetchManifestAndRetry and load() to the caller.
OnThrow(call, outcome, err) ==
    [call EXCEPT !.pc = "rejected",
                 !.outcomes = Append(@, outcome),
                 !.err = err]

\* Lines 144, 153, 159 and, for an accessor, 171-182: the manifest is returned.
OnManifest(call, req, m, opts) ==
    [call EXCEPT !.pc = "resolved",
                 !.outcomes = Append(@, "valid"),
                 !.result = <<m>>,
                 !.resultFetch = req.id,
                 !.value = IF call.kind = "accessor"
                           THEN DevAccessorValue(m, call.name, opts)
                           ELSE <<>>]

\* A counter that is set instead of incremented: the update before is lost.
Increment_Set(n) == 1

\* Line 128.
Increment(n) == n + 1

\* A ceiling check that fires only on the first count above the ceiling.
CeilingExceeded_Exactly(n) == n = INVALID_MANIFEST_MAX_RETRIES + 1

\* A ceiling check that is off by one.
CeilingExceeded_AtCeiling(n) == n >= INVALID_MANIFEST_MAX_RETRIES

\* Line 129.
CeilingExceeded(n) == n > INVALID_MANIFEST_MAX_RETRIES

\* The request an invocation is suspended on.
RequestOf(c) == CHOOSE r \in net : r.id = calls[c].fetchIds[Len(calls[c].fetchIds)]

\* A load() that takes the dev-server branch whenever the option is present,
\* null included.
LoadUsesDevServer_Always(opts) == TRUE

\* Whether load() called now goes to the dev server (line 110).
LoadUsesDevServer(opts) == opts.fromWebpackDevServerURL

\* A dev-mode load() that shares the result of an earlier invocation.
DevLoad_Shared ==
    /\ phase = "constructed"
    /\ LoadUsesDevServer(options)
    /\ Len(calls) < MaxCalls
    /\ fetches < MaxFetches
    /\ IF \E c \in 1..Len(calls) : calls[c].pc = "resolved"
       THEN LET c == CHOOSE c \in 1..Len(calls) : calls[c].pc = "resolved"
            IN  /\ calls' = Append(calls, [NewCall("load", "") EXCEPT
                                             !.pc = "resolved",
                                             !.result = calls[c].result,
                                             !.resultFetch = calls[c].resultFetch])
                /\ UNCHANGED <<net, fetches>>
       ELSE /\ calls' = Append(calls, IssueFetch(NewCall("load", ""), Len(calls) + 1))
            /\ net' = net \cup {Request(NewCall("load", ""), Len(calls) + 1)}
            /\ fetches' = fetches + 1
    /\ UNCHANGED <<phase, options, disk, serverReady, manifest, entrypoints, invalidManifestCounter,
                   accessors, fileReads, thrown>>

\* load() in dev mode, lines 109-115 and 159: up to the first await.
DevLoad ==
    /\ phase = "constructed"
    /\ LoadUsesDevServer(options)
    /\ Len(calls) < MaxCalls
    /\ fetches < MaxFetches
    /\ calls' = Append(calls, IssueFetch(NewCall("load", ""), Len(calls) + 1))
    /\ net' = net \cup {Request(NewCall("load", ""), Len(calls) + 1)}
    /\ fetches' = fetches + 1
    /\ UNCHANGED <<phase, options, disk, serverReady, manifest, entrypoints, invalidManifestCounter,
                   accessors, fileReads, thrown>>

\* load() in file mode, lines 161-165.
FileLoad ==
    /\ phase = "constructed"
    /\ ~LoadUsesDevServer(options)
    /\ Len(calls) < MaxCalls
    /\ IF manifest # <<>>
       THEN /\ calls' = Append(calls, [NewCall("load", "") EXCEPT
                                         !.pc = "resolved", !.result = manifest])
            /\ UNCHANGED thrown
       ELSE /\ calls' = Append(calls, [NewCall("load", "") EXCEPT
                                         !.pc = "rejected",
                                         !.err = "Failed to load entrypoint"])
            /\ UNCHANGED thrown
    /\ UNCHANGED <<phase, options, disk, serverReady, manifest, entrypoints, invalidManifestCounter,
                   accessors, net, fetches, fileReads>>

\* createEntrypointLoader(name), lines 168-191.
CreateEntrypointLoader(name) ==
    /\ phase = "constructed"
    /\ Cardinality(accessors) < MaxAccessors
    /\ IF options.fromWebpackDevServerURL
       THEN /\ accessors' = accessors \cup {[name |-> name, dev |-> TRUE, captured |-> <<>>]}
            /\ UNCHANGED thrown
       ELSE IF entrypoints # <<>>
       THEN /\ accessors' = accessors \cup
                 {[name |-> name, dev |-> FALSE,
                   captured |-> FileAccessorValue(entrypoints[1], name)]}
            /\ UNCHANGED thrown
       ELSE /\ thrown' = thrown \cup {"Failed to load entrypoint"}
            /\ UNCHANGED accessors
    /\ UNCHANGED <<phase, options, disk, serverReady, manifest, entrypoints, invalidManifestCounter,
                   calls, net, fetches, fileReads>>

\* A dev-mode accessor that answers from the manifest an earlier invocation
\* loaded.
InvokeAccessor_Cached(a) ==
    /\ a \in accessors
    /\ Len(calls) < MaxCalls
    /\ IF a.dev /\ \E c \in 1..Len(calls) : calls[c].pc = "resolved"
       THEN LET c == CHOOSE c \in 1..Len(calls) : calls[c].pc = "resolved"
            IN  /\ calls' = Append(calls, [NewCall("accessor", a.name) EXCEPT
                                  !.pc = "resolved",
                                  !.result = calls[c].result,
                                  !.resultFetch = calls[c].resultFetch,
                                  !.value = DevAccessorValue(calls[c].result[1], a.name, options)])
                /\ UNCHANGED <<net, fetches>>
       ELSE IF a.dev
       THEN /\ fetches < MaxFetches
            /\ calls' = Append(calls, IssueFetch(NewCall("accessor", a.name), Len(calls) + 1))
            /\ net' = net \cup {Request(NewCall("accessor", a.name), Len(calls) + 1)}
            /\ fetches' = fetches + 1
       ELSE /\ calls' = Append(calls, [NewCall("accessor", a.name) EXCEPT
                                         !.pc = "resolved", !.value = a.captured])
            /\ UNCHANGED <<net, fetches>>
    /\ UNCHANGED <<phase, options, disk, serverReady, manifest, entrypoints, invalidManifestCounter,
                   accessors, fileReads, thrown>>

\* Invoking an accessor createEntrypointLoader returned.
\* Dev mode (line 171): it calls load(), which issues the first fetch.
\* File mode (line 188): it resolves with the captured entrypoint.
InvokeAccessor(a) ==
    /\ a \in accessors
    /\ Len(calls) < MaxCalls
    /\ IF a.dev
       THEN /\ fetches < MaxFetches
            /\ calls' = Append(calls, IssueFetch(NewCall("accessor", a.name), Len(calls) + 1))
            /\ net' = net \cup {Request(NewCall("accessor", a.name), Len(calls) + 1)}
            /\ fetches' = fetches + 1
       ELSE /\ calls' = Append(calls, [NewCall("accessor", a.name) EXCEPT
                                         !.pc = "resolved", !.value = a.captured])
            /\ UNCHANGED <<net, fetches>>
    /\ UNCHANGED <<phase, options, disk, serverReady, manifest, entrypoints, invalidManifestCounter,
                   accessors, fileReads, thrown>>

\* The request fails on the network: fetch(url) rejects (line 115).
FetchFails(c) ==
    /\ calls[c].pc = "fetching"
    /\ calls' = [calls EXCEPT ![c] = OnThrow(@, "neterr", "FetchError")]
    /\ net' = net \ {RequestOf(c)}
    /\ UNCHANGED <<phase, options, disk, serverReady, manifest, entrypoints, invalidManifestCounter,
                   accessors, fetches, fileReads, thrown>>

\* A non-success response counted as an invalid manifest.
FetchNotOk_Counted(c) ==
    /\ calls[c].pc = "fetching"
    /\ invalidManifestCounter' = Increment(invalidManifestCounter)
    /\ IF CeilingExceeded(Increment(invalidManifestCounter))
       THEN calls' = [calls EXCEPT ![c] = OnThrow(@, "notok", "Invalid manifest")]
       ELSE calls' = [calls EXCEPT ![c] = OnNull(@, "notok")]
    /\ net' = net \ {RequestOf(c)}
    /\ UNCHANGED <<phase, options, disk, serverReady, manifest, entrypoints,
                   accessors, fetches, fileReads, thrown>>

\* The response arrives with a non-success status: lines 116-122.
FetchNotOk(c) ==
    /\ calls[c].pc = "fetching"
    /\ calls' = [calls EXCEPT ![c] = OnNull(@, "notok")]
    /\ net' = net \ {RequestOf(c)}
    /\ UNCHANGED <<phase, options, disk, serverReady, manifest, entrypoints, invalidManifestCounter,
                   accessors, fetches, fileReads, thrown>>

\* The response arrives with a success status and a body that is not JSON:
\* res.json() rejects (line 123).
FetchNotJson(c) ==
    /\ calls[c].pc = "fetching"
    /\ calls' = [calls EXCEPT ![c] = OnThrow(@, "notjson", "SyntaxError")]
    /\ net' = net \ {RequestOf(c)}
    /\ UNCHANGED <<phase, options, disk, serverReady, manifest, entrypoints, invalidManifestCounter,
                   accessors, fetches, fileReads, thrown>>

RECURSIVE CountOf(_, _)
\* How many times x occurs in the sequence s.
CountOf(s, x) ==
    IF s = <<>> THEN 0
    ELSE (IF Head(s) = x THEN 1 ELSE 0) + CountOf(Tail(s), x)

\* A ceiling applied to the invalid manifests of the invocation itself.
FetchOk_PerInvocation(c, m) ==
    /\ calls[c].pc = "fetching"
    /\ LET call == [calls[c] EXCEPT !.body = <<m>>]
       IN  /\ net' = net \ {RequestOf(c)}
           /\ IF FirstCheck(m) = "throw"
              THEN /\ calls' = [calls EXCEPT ![c] = OnThrow(call, "typeerror", "TypeError")]
                   /\ UNCHANGED invalidManifestCounter
              ELSE IF FirstCheck(m) = "invalid"
              THEN /\ invalidManifestCounter' = Increment(invalidManifestCounter)
                   /\ IF CeilingExceeded(Increment(CountOf(call.outcomes, "invalid")))
                      THEN calls' = [calls EXCEPT ![c] =
                                       OnThrow(call, "invalid", "Invalid manifest")]
                      ELSE calls' = [calls EXCEPT ![c] = OnNull(call, "invalid")]
              ELSE /\ invalidManifestCounter' = 0
                   /\ IF SecondCheck(m)
                      THEN calls' = [calls EXCEPT ![c] = OnNull(call, "notready")]
                      ELSE calls' = [calls EXCEPT ![c] = OnManifest(call, RequestOf(c), m, options)]
    /\ UNCHANGED <<phase, options, disk, serverReady, manifest, entrypoints,
                   accessors, fetches, fileReads, thrown>>

\* The response arrives with a success status and a JSON body, and
\* fetchManifest runs to its end, lines 116-144, followed by lines 151-156 of
\* fetchManifestAndRetry. Between the two awaits of lines 115 and 123 the
\* invocation touches nothing but its own locals, so that the arrival of the
\* response and of its body are one step here.
FetchOk(c, m) ==
    /\ calls[c].pc = "fetching"
    /\ LET call == [calls[c] EXCEPT !.body = <<m>>]
       IN  /\ net' = net \ {RequestOf(c)}
           /\ IF FirstCheck(m) = "throw"
              THEN /\ calls' = [calls EXCEPT ![c] = OnThrow(call, "typeerror", "TypeError")]
                   /\ UNCHANGED invalidManifestCounter
              ELSE IF FirstCheck(m) = "invalid"
              THEN /\ invalidManifestCounter' = Increment(invalidManifestCounter)
                   /\ IF CeilingExceeded(Increment(invalidManifestCounter))
                      THEN calls' = [calls EXCEPT ![c] =
                                       OnThrow(call, "invalid", "Invalid manifest")]
                      ELSE calls' = [calls EXCEPT ![c] = OnNull(call, "invalid")]
              ELSE /\ invalidManifestCounter' = 0
                   /\ IF SecondCheck(m)
                      THEN calls' = [calls EXCEPT ![c] = OnNull(call, "notready")]
                      ELSE calls' = [calls EXCEPT ![c] = OnManifest(call, RequestOf(c), m, options)]
    /\ UNCHANGED <<phase, options, disk, serverReady, manifest, entrypoints,
                   accessors, fetches, fileReads, thrown>>

\* A retry loop that waits once and then gives up: the invocation resolves
\* with nothing.
TimerFires_GiveUp(c) ==
    /\ calls[c].pc = "waiting"
    /\ calls' = [calls EXCEPT ![c] = [@ EXCEPT !.pc = "resolved"]]
    /\ UNCHANGED <<phase, options, disk, serverReady, manifest, entrypoints,
                   invalidManifestCounter, accessors, net, fetches, fileReads, thrown>>

\* waitFor(waitForMS) elapses and fetchManifestAndRetry(waitForMS * 1.5)
\* issues the next fetch, lines 156-157 and 151, 115.
TimerFires(c) ==
    /\ calls[c].pc = "waiting"
    /\ fetches < MaxFetches
    /\ calls' = [calls EXCEPT ![c] =
                    IssueFetch([@ EXCEPT !.waitForMS = NextWait(@)], c)]
    /\ net' = net \cup {Request(calls[c], c)}
    /\ fetches' = fetches + 1
    /\ UNCHANGED <<phase, options, disk, serverReady, manifest, entrypoints, invalidManifestCounter,
                   accessors, fileReads, thrown>>

Next ==
    \/ Construct
    \/ DevLoad
    \/ FileLoad
    \/ \E name \in Names : CreateEntrypointLoader(name)
    \/ \E a \in accessors : InvokeAccessor(a)
    \/ \E c \in 1..Len(calls) : FetchFails(c)
    \/ \E c \in 1..Len(calls) : FetchNotOk(c)
    \/ \E c \in 1..Len(calls) : FetchNotJson(c)
    \/ \E c \in 1..Len(calls) : \E m \in Bodies : FetchOk(c, m)
    \/ \E c \in 1..Len(calls) : TimerFires(c)

Spec == Init /\ [][Next]_vars

----------------------------------------------------------------------------
\* The dev-mode retry loop against a dev server that, from some moment on,
\* answers every request with a complete manifest.

\* What the dev server serves once the build is complete.
ReadyBodies == {MReadyA}

\* A dev-mode loader; whether the dev-server bundle is injected plays no part
\* in load().
FairInit ==
    /\ Init
    /\ options = [fromWebpackDevServerURL |-> TRUE,
                  injectWebpackDevServerBundle |-> FALSE]

\* The build completes: every response from now on is a complete manifest.
BecomeReady ==
    /\ ~serverReady
    /\ serverReady' = TRUE
    /\ UNCHANGED <<phase, options, disk, manifest, entrypoints, invalidManifestCounter,
                   accessors, calls, net, fetches, fileReads, thrown>>

\* The fetch invocation c is suspended on settles, awaits of lines 115, 123.
Settle(c) ==
    \/ ~serverReady /\ FetchFails(c)
    \/ ~serverReady /\ FetchNotOk(c)
    \/ ~serverReady /\ FetchNotJson(c)
    \/ \E m \in Bodies : (serverReady => m \in ReadyBodies) /\ FetchOk(c, m)

FairNext ==
    \/ Construct
    \/ DevLoad
    \/ BecomeReady
    \/ \E c \in 1..Len(calls) : Settle(c)
    \/ \E c \in 1..Len(calls) : TimerFires(c)

\* The event loop runs every timer that is due and every request settles.
FairSpec ==
    /\ FairInit
    /\ [][FairNext]_vars
    /\ \A c \in 1..MaxCalls :
          /\ WF_vars(c <= Len(calls) /\ TimerFires(c))
          /\ WF_vars(c <= Len(calls) /\ Settle(c))

----------------------------------------------------------------------------
\* Properties.

FileMode == ~options.fromWebpackDevServerURL
Calls == 1..Len(calls)
Last(seq) == seq[Len(seq)]

\* C5: in file mode every load() resolves with the manifest read at
\* construction, no load() reads the file or fetches, and a load() leaves the
\* loader's state as it was.
C5_FileLoadIdempotent ==
    /\ [](FileMode =>
            /\ fetches = 0
            /\ fileReads <= 1
            /\ net = {}
            /\ \A c \in Calls : calls[c].kind = "load" =>
                  /\ calls[c].pc = "resolved"
                  /\ calls[c].result = disk.content
                  /\ calls[c].fetchIds = <<>>)
    /\ [][(FileMode /\ Len(calls') > Len(calls)) =>
            /\ loaderState' = loaderState
            /\ fileReads' = fileReads
            /\ fetches' = fetches]_vars

\* Two file-mode load() calls have both resolved.
C5_Witness ==
    /\ FileMode
    /\ Len(calls) >= 2
    /\ calls[1].kind = "load" /\ calls[1].pc = "resolved"
    /\ calls[2].kind = "load" /\ calls[2].pc = "resolved"

\* C9: in file mode a missing or unreadable file, or one that is not JSON,
\* makes the constructor throw, so that no loader exists; a loader that was
\* constructed holds a manifest and an entrypoints index from then on.
C9_FileConstructionFailsFast ==
    (FileMode /\ phase # "new") =>
        /\ disk.kind \in {"missing", "notjson"} =>
              /\ phase = "failed"
              /\ "Failed to load manifest file" \in thrown
        /\ phase = "failed" => (accessors = {} /\ calls = <<>>)
        /\ phase = "constructed" => (manifest # <<>> /\ entrypoints # <<>>)

\* The constructor has thrown on a file that is not JSON.
C9_Witness ==
    FileMode /\ phase = "failed" /\ disk.kind = "notjson"

----------------------------------------------------------------------------
\* Properties of the dev-mode retry loop.

DevMode == options.fromWebpackDevServerURL

\* The request invocation c is suspended on, as a set of at most one element.
Pending(c) == {r \in net : r.owner = c}

\* Invocation c receives a JSON body in this step and validates it.
Parses(c) ==
    /\ calls[c].pc = "fetching"
    /\ calls'[c].pc # "fetching"
    /\ calls'[c].body # <<>>

\* The body invocation c validates in this step.
ParsedBody(c) == calls'[c].body[1]

\* The first entrypoint of a manifest that has one.
HasFirst(m) == m.hasEntrypoints /\ Len(m.entrypoints) > 0
First(m) == m.entrypoints[1]

\* fetch, wait, fetch, ... : fetches one at a time, one wait between two.
Sequential(events) ==
    \A i \in 1..Len(events) : events[i] = IF i % 2 = 1 THEN "fetch" ELSE "wait"

\* C1: a dev-mode load() whose attempts were k failures (non-success status
\* or invalid manifest, below the ceiling) and then a valid manifest has
\* issued exactly k+1 fetches, one at a time with one backoff wait between
\* two of them, and has resolved with the manifest of its (k+1)-th fetch.
C1_RetryUntilValid ==
    /\ [](\A c \in Calls :
            /\ Sequential(calls[c].events)
            /\ Cardinality(Pending(c)) <= 1
            /\ (/\ DevMode
                /\ calls[c].outcomes # <<>>
                /\ Last(calls[c].outcomes) = "valid"
                /\ \A i \in 1..(Len(calls[c].outcomes) - 1) :
                      calls[c].outcomes[i] \in {"notok", "invalid"})
               => LET k == Len(calls[c].outcomes) - 1
                  IN  /\ calls[c].pc = "resolved"
                      /\ Len(calls[c].fetchIds) = k + 1
                      /\ Len(calls[c].events) = 2 * k + 1
                      /\ calls[c].result # <<>>
                      /\ calls[c].resultFetch = <<c, k + 1>>
                      /\ Pending(c) = {})
    /\ [](\A c \in Calls :
            (DevMode /\ calls[c].pc = "resolved") => Last(calls[c].outcomes) = "valid")
    /\ [][\A c \in Calls :
            (Parses(c) /\ calls'[c].pc = "resolved") =>
                /\ Pending(c) = {[id |-> <<c, Len(calls[c].fetchIds)>>, owner |-> c]}
                /\ calls'[c].result = <<ParsedBody(c)>>]_vars

\* A load() has resolved on its third fetch, after a non-success response and
\* an invalid manifest.
C1_Witness ==
    \E c \in Calls :
        /\ calls[c].kind = "load"
        /\ calls[c].pc = "resolved"
        /\ calls[c].outcomes = <<"notok", "invalid", "valid">>
        /\ calls[c].events = <<"fetch", "wait", "fetch", "wait", "fetch">>

\* The first entrypoint has assets but no js key among them.
JsMissing(m) == HasFirst(m) /\ First(m).hasAssets /\ ~First(m).hasJs

\* The first entrypoint has a js list, and the list is empty.
JsEmpty(m) == HasFirst(m) /\ First(m).hasAssets /\ First(m).hasJs /\ First(m).js = <<>>

Recoverable(m) ==
    \/ ~m.hasEntrypoints
    \/ Len(m.entrypoints) = 0
    \/ ~First(m).hasAssets
    \/ ~First(m).hasJs

\* C3: a non-success response or a manifest that is not ready (missing or
\* empty entrypoints, a first entrypoint without JS assets or with a malformed
\* descriptor) leads to a retry; load() rejects on such a response only when
\* the invalid-manifest ceiling is exceeded.
C3_RecoverableIsRetried ==
    \A c \in Calls :
        /\ (calls[c].outcomes # <<>> /\ Last(calls[c].outcomes) = "notok")
              => calls[c].pc # "rejected"
        /\ (calls[c].pc = "rejected" /\ calls[c].body # <<>> /\ Recoverable(calls[c].body[1]))
              => (/\ calls[c].err = "Invalid manifest"
                  /\ invalidManifestCounter > INVALID_MANIFEST_MAX_RETRIES)

\* The manifests line 128 counts.
CountedInvalid(m) == ~m.hasEntrypoints \/ JsMissing(m)

\* C4: an invalid manifest whose increment takes the counter above the
\* ceiling makes load() reject without a retry; an invalid manifest that
\* leaves the counter at or below the ceiling leads to a retry; and load()
\* rejects with the invalid-manifest error in no other step.
C4_RejectsAboveCeiling ==
    /\ [][\A c \in Calls :
            (Parses(c) /\ CountedInvalid(ParsedBody(c))) =>
                IF invalidManifestCounter + 1 > INVALID_MANIFEST_MAX_RETRIES
                THEN /\ calls'[c].pc = "rejected"
                     /\ calls'[c].err = "Invalid manifest"
                ELSE /\ calls'[c].pc = "waiting"
                     /\ calls'[c].err = ""]_vars
    /\ [][\A c \in Calls :
            (calls[c].err = "" /\ calls'[c].err = "Invalid manifest") =>
                /\ Parses(c) /\ CountedInvalid(ParsedBody(c))
                /\ invalidManifestCounter + 1 > INVALID_MANIFEST_MAX_RETRIES
                /\ invalidManifestCounter' = invalidManifestCounter + 1]_vars
    /\ [](\A c \in Calls :
            calls[c].pc = "rejected" => calls[c].events[Len(calls[c].events)] = "fetch")

\* A load() was rejected by the invalid manifest that took the counter to one
\* above the ceiling, after retrying on the ones before.
C4_Witness ==
    \E c \in Calls :
        /\ calls[c].pc = "rejected"
        /\ calls[c].err = "Invalid manifest"
        /\ Len(calls[c].fetchIds) = INVALID_MANIFEST_MAX_RETRIES + 1
        /\ invalidManifestCounter = INVALID_MANIFEST_MAX_RETRIES + 1

----------------------------------------------------------------------------
\* Properties of the entrypoint accessors.

\* What manifest m holds under name: the JS and CSS lists of that entrypoint
\* in their order, or null.
Lookup(m, name) ==
    IF m.hasEntrypoints /\ \E i \in 1..Len(m.entrypoints) : m.entrypoints[i].name = name
    THEN LET raw == m.entrypoints[CHOOSE i \in 1..Len(m.entrypoints) :
                                     m.entrypoints[i].name = name]
         IN  <<[js  |-> IF raw.hasAssets /\ raw.hasJs THEN raw.js ELSE <<>>,
                css |-> IF raw.hasAssets THEN raw.css ELSE <<>>]>>
    ELSE <<>>

\* C6: in file mode the accessor of createEntrypointLoader(name) holds the
\* entrypoint looked up at creation and resolves to it on every invocation:
\* the indexed entrypoint when the manifest has name, null when it has not;
\* neither the creation nor an invocation throws, reads the file or fetches.
C6_FileAccessor ==
    (FileMode /\ phase = "constructed") =>
        /\ \A a \in accessors :
              /\ ~a.dev
              /\ a.captured = Lookup(disk.content[1], a.name)
        /\ \A c \in Calls : calls[c].kind = "accessor" =>
              /\ calls[c].pc = "resolved"
              /\ calls[c].value = Lookup(disk.content[1], calls[c].name)
              /\ calls[c].fetchIds = <<>>
        /\ "Failed to load entrypoint" \notin thrown
        /\ fetches = 0
        /\ fileReads = 1

\* The accessor of a name the manifest on disk does not have was invoked
\* twice and resolved with null both times.
C6_Witness ==
    /\ FileMode
    /\ disk.content = <<MReadyA>>
    /\ Len(calls) >= 2
    /\ calls[1].kind = "accessor" /\ calls[2].kind = "accessor"
    /\ calls[1].name = "absent" /\ calls[2].name = "absent"
    /\ calls[1].value = <<>> /\ calls[2].value = <<>>

\* C7: an accessor resolves with the entrypoint followed by the dev-server
\* script, as the last element of its JS list, exactly when the loader is in
\* dev mode, the bundle is to be injected and the entrypoint was found: the
\* script is there once, the CSS list and the JS elements before it are those
\* of the manifest. In file mode, without the option or for a name that is
\* not found, the accessor resolves with the plain lookup.
C7_DevServerInjected ==
    \A c \in Calls :
        (calls[c].kind = "accessor" /\ calls[c].pc = "resolved") =>
            LET plain == IF DevMode
                         THEN Lookup(calls[c].result[1], calls[c].name)
                         ELSE Lookup(disk.content[1], calls[c].name)
                value == calls[c].value
            IN  IF DevMode /\ options.injectWebpackDevServerBundle /\ plain # <<>>
                THEN /\ value # <<>>
                     /\ value[1].css = plain[1].css
                     /\ Len(value[1].js) = Len(plain[1].js) + 1
                     /\ SubSeq(value[1].js, 1, Len(plain[1].js)) = plain[1].js
                     /\ value[1].js[Len(value[1].js)] =
                           [src |-> "webpack-dev-server.js", integrity |-> ""]
                ELSE value = plain

\* With the option set, a dev-mode accessor was invoked twice and found its
\* entrypoint both times.
C7_Witness ==
    /\ DevMode
    /\ options.injectWebpackDevServerBundle
    /\ Len(calls) >= 2
    /\ \A c \in 1..2 :
          /\ calls[c].kind = "accessor"
          /\ calls[c].pc = "resolved"
          /\ calls[c].value # <<>>
          /\ Len(calls[c].value[1].js) = 3

\* The number of fetches the invocations 1..n have issued.
RECURSIVE FetchesOf(_)
FetchesOf(n) == IF n = 0 THEN 0 ELSE Len(calls[n].fetchIds) + FetchesOf(n - 1)

\* C8: a dev-mode loader caches nothing: neither its construction nor
\* createEntrypointLoader issues a fetch or fills a cache, every invocation of
\* an accessor issues at least one fetch of its own, and it resolves from the
\* manifest one of these fetches delivered.
C8_DevNothingCached ==
    DevMode =>
        /\ manifest = <<>>
        /\ entrypoints = <<>>
        /\ fileReads = 0
        /\ fetches = FetchesOf(Len(calls))
        /\ \A c \in Calls :
              /\ Len(calls[c].fetchIds) >= 1
              /\ calls[c].pc = "resolved" =>
                    /\ calls[c].resultFetch = <<c, Len(calls[c].fetchIds)>>
                    /\ calls[c].kind = "accessor" =>
                          (calls[c].value = <<>>) =
                              (Lookup(calls[c].result[1], calls[c].name) = <<>>)

\* Two invocations of a dev-mode accessor have resolved, each from the
\* manifest it fetched, and the two manifests differ.
C8_Witness ==
    /\ DevMode
    /\ Len(calls) >= 2
    /\ \A c \in 1..2 : calls[c].kind = "accessor" /\ calls[c].pc = "resolved"
    /\ calls[1].result # calls[2].result

\* C10: concurrent dev-mode invocations on one loader do not share requests
\* or results: every invocation issues its own fetches, so that there are at
\* least as many fetches as invocations, it has at most one of them in flight
\* at a time, and it resolves with a manifest of one of its own fetches.
C10_IndependentInvocations ==
    DevMode =>
        /\ fetches >= Len(calls)
        /\ \A r \in net : r.owner \in Calls /\ r.id[1] = r.owner
        /\ \A c \in Calls :
              /\ Cardinality(Pending(c)) <= 1
              /\ (Pending(c) # {}) = (calls[c].pc = "fetching")
              /\ calls[c].fetchIds # <<>>
              /\ \A i \in 1..Len(calls[c].fetchIds) : calls[c].fetchIds[i] = <<c, i>>
              /\ calls[c].pc = "resolved" =>
                    \E i \in 1..Len(calls[c].fetchIds) :
                        calls[c].resultFetch = calls[c].fetchIds[i]

\* The second invocation has resolved from its own fetch while the first,
\* begun before it, still has its second request in flight.
C10_Witness ==
    /\ DevMode
    /\ Len(calls) >= 2
    /\ calls[1].pc = "fetching"
    /\ Len(calls[1].fetchIds) = 2
    /\ calls[2].pc = "resolved"
    /\ calls[2].resultFetch = <<2, 1>>

----------------------------------------------------------------------------
\* Properties of the backoff delay and of the shared counter.

RECURSIVE Pow(_, _)
Pow(b, e) == IF e = 0 THEN 1 ELSE b * Pow(b, e - 1)

\* The fraction w is 1000 * 1.5^k milliseconds.
IsBackoff(w, k) == w[1] * Pow(2, k) = 1000 * Pow(3, k) * w[2]

\* C11: within one dev-mode load() the wait that follows the i-th failed
\* attempt, that is the wait before the i-th retry, is 1000 * 1.5^(i-1) ms
\* whatever the attempts came to; the delay belongs to the invocation: a new
\* invocation starts at 1000 ms and no step of one invocation changes the
\* delay of another.
C11_BackoffSchedule ==
    /\ [](\A c \in Calls :
            (DevMode /\ calls[c].fetchIds # <<>>) =>
                IsBackoff(calls[c].waitForMS, Len(calls[c].fetchIds) - 1))
    /\ [][\A c \in 1..Len(calls') :
            IF c \in Calls
            THEN \/ calls'[c].waitForMS = calls[c].waitForMS
                 \/ /\ calls[c].pc = "waiting"
                    /\ calls'[c].pc = "fetching"
                    /\ \A d \in Calls \ {c} : calls'[d] = calls[d]
            ELSE calls'[c].waitForMS = <<1000, 1>>]_vars

\* One invocation waits 1500 ms before its second retry, after a non-success
\* response and an invalid manifest, while a later one is on its first fetch
\* with a delay of 1000 ms.
C11_Witness ==
    /\ DevMode
    /\ Len(calls) >= 2
    /\ calls[1].pc = "waiting"
    /\ calls[1].outcomes = <<"notok", "invalid">>
    /\ calls[1].waitForMS = <<3000, 2>>
    /\ calls[2].pc = "fetching"
    /\ calls[2].waitForMS = <<1000, 1>>

\* The manifest passes the validity check of lines 124-127.
PassesValidity(m) == HasFirst(m) /\ First(m).hasAssets /\ First(m).hasJs

RECURSIVE TotalOf(_, _)
\* How many attempts of the invocations 1..n came to the outcome x.
TotalOf(n, x) == IF n = 0 THEN 0 ELSE CountOf(calls[n].outcomes, x) + TotalOf(n - 1, x)

\* C12: the counter is 0 at construction; an invalid manifest adds exactly 1
\* to the value it finds, whichever invocation receives it, a manifest that
\* passes the validity check sets it to 0, and every other step (a
\* non-success response, a failed fetch, the start of a load(), a timer)
\* leaves it as it is. Hence it counts the invalid manifests received since
\* the latest valid one: as long as no valid manifest was received it is the
\* number of invalid manifests over all the invocations so far.
C12_CounterCountsInvalid ==
    /\ [](phase = "new" => invalidManifestCounter = 0)
    /\ [][IF \E c \in Calls : Parses(c) /\ CountedInvalid(ParsedBody(c))
          THEN invalidManifestCounter' = invalidManifestCounter + 1
          ELSE IF \E c \in Calls : Parses(c) /\ PassesValidity(ParsedBody(c))
          THEN invalidManifestCounter' = 0
          ELSE invalidManifestCounter' = invalidManifestCounter]_vars
    /\ [](invalidManifestCounter <= TotalOf(Len(calls), "invalid"))
    /\ []((TotalOf(Len(calls), "valid") = 0 /\ TotalOf(Len(calls), "notready") = 0)
            => invalidManifestCounter = TotalOf(Len(calls), "invalid"))

\* Two invocations have received one invalid manifest each and the counter
\* is 2: the second increment started from the first.
C12_Witness ==
    /\ DevMode
    /\ Len(calls) >= 2
    /\ calls[1].outcomes = <<"invalid">>
    /\ calls[2].outcomes = <<"invalid">>
    /\ invalidManifestCounter = 2

\* Every attempt of invocation c so far came to a non-success response.
OnlyNotOk(c) ==
    \A i \in 1..Len(calls[c].outcomes) : calls[c].outcomes[i] = "notok"

\* C13: a dev-mode load() that has received nothing but non-success
\* responses is neither resolved nor rejected: it is suspended on a fetch or
\* on a backoff wait that ends in the next fetch, however many responses it
\* has received; and a non-success response leaves the counter as it is, so
\* that the counter is still 0 when no invocation has received anything else.
C13_NotOkRetriesForever ==
    /\ [](\A c \in Calls :
            (DevMode /\ OnlyNotOk(c)) =>
                /\ calls[c].pc \in {"fetching", "waiting"}
                /\ calls[c].err = "" /\ calls[c].result = <<>>
                /\ Len(calls[c].fetchIds) =
                      Len(calls[c].outcomes) + (IF calls[c].pc = "fetching" THEN 1 ELSE 0)
                /\ (calls[c].pc = "waiting" /\ fetches < MaxFetches) =>
                      ENABLED TimerFires(c))
    /\ []((DevMode /\ \A c \in Calls : OnlyNotOk(c)) => invalidManifestCounter = 0)
    /\ [][\A c \in Calls :
            (/\ calls[c].pc = "fetching"
             /\ calls'[c].outcomes = Append(calls[c].outcomes, "notok"))
            => /\ invalidManifestCounter' = invalidManifestCounter
               /\ calls'[c].pc = "waiting"]_vars

\* A load() is waiting for its next retry after three non-success responses,
\* and the counter is 0.
C13_Witness ==
    \E c \in Calls :
        /\ calls[c].kind = "load"
        /\ calls[c].outcomes = <<"notok", "notok", "notok">>
        /\ calls[c].pc = "waiting"
        /\ invalidManifestCounter = 0

Resolved(c) ==
    /\ calls[c].pc = "resolved"
    /\ calls[c].result # <<>>
    /\ Last(calls[c].outcomes) = "valid"

\* Invocation c waits for a retry the fetch bound of the model does not allow.
OutOfFetches(c) == calls[c].pc = "waiting" /\ fetches = MaxFetches

\* C15: a dev-mode load() is suspended on a fetch that will settle, waiting
\* for a timer that will fire, resolved or rejected, and once resolved or
\* rejected it never changes again; when the dev server has turned ready,
\* so that every fetch returns a complete manifest, a fetch that settles
\* resolves its invocation, and every invocation then pending eventually
\* resolves with a manifest (up to the fetch bound of the model).
C15_EndsResolvedOrRejected ==
    /\ [](\A c \in Calls :
            /\ calls[c].pc \in {"fetching", "waiting", "resolved", "rejected"}
            /\ calls[c].pc = "fetching" => ENABLED Settle(c)
            /\ (calls[c].pc = "waiting" /\ fetches < MaxFetches) => ENABLED TimerFires(c)
            /\ calls[c].pc = "resolved" => Resolved(c)
            /\ calls[c].pc = "rejected" => calls[c].err # "")
    /\ [][\A c \in Calls :
            calls[c].pc \in {"resolved", "rejected"} => calls'[c] = calls[c]]_vars
    /\ [][\A c \in Calls :
            (serverReady /\ calls[c].pc = "fetching" /\ calls'[c].pc # "fetching")
            => calls'[c].pc = "resolved"]_vars
    /\ \A c \in 1..MaxCalls :
            (c \in Calls /\ serverReady /\ calls[c].pc \in {"fetching", "waiting"})
            ~> (c \in Calls /\ (Resolved(c) \/ OutOfFetches(c)))

\* The dev server is ready and a load() has resolved on its second fetch,
\* after a failed attempt, while another has been rejected.
C15_Witness ==
    /\ serverReady
    /\ \E c \in Calls :
          /\ Resolved(c)
          /\ Len(calls[c].fetchIds) = 2
    /\ \E c \in Calls : calls[c].pc = "rejected"

\* C16: the ceiling is applied to the counter of the loader, which every
\* invocation raises, not to the invalid manifests of one invocation. An
\* invalid manifest rejects the invocation that receives it exactly when the
\* counter already stands at the ceiling, however few invalid manifests that
\* invocation has received itself; an invocation rejected for the ceiling
\* has received at least one invalid manifest, and all the invocations
\* together more than the ceiling; and a valid manifest received by one
\* invocation sets the counter to 0 for all of them while the others go on
\* as they were.
C16_CeilingPerLoader ==
    /\ [][\A c \in Calls :
            (Parses(c) /\ CountedInvalid(ParsedBody(c))) =>
                (calls'[c].pc = "rejected") =
                    (invalidManifestCounter >= INVALID_MANIFEST_MAX_RETRIES)]_vars
    /\ [][\A c \in Calls :
            (Parses(c) /\ PassesValidity(ParsedBody(c))) =>
                /\ invalidManifestCounter' = 0
                /\ \A d \in Calls \ {c} : calls'[d] = calls[d]]_vars
    /\ [](\A c \in Calls :
            calls[c].err = "Invalid manifest" =>
                /\ CountOf(calls[c].outcomes, "invalid") >= 1
                /\ TotalOf(Len(calls), "invalid") > INVALID_MANIFEST_MAX_RETRIES)

\* An invocation has been rejected for the ceiling by the only response it
\* received, while another, which took the counter to the ceiling, is still
\* retrying.
C16_Witness ==
    \E c, d \in Calls :
        /\ c # d
        /\ calls[c].err = "Invalid manifest"
        /\ calls[c].outcomes = <<"invalid">>
        /\ calls[d].pc \in {"fetching", "waiting"}
        /\ CountOf(calls[d].outcomes, "invalid") = INVALID_MANIFEST_MAX_RETRIES

\* Some invocation has received a manifest that passed the validity check.
SomeValidReceived ==
    TotalOf(Len(calls), "valid") + TotalOf(Len(calls), "notready") > 0

\* C17: a counter above the ceiling stays above it in every step but the
\* receipt of a manifest that passes the validity check, which sets it to 0;
\* hence once a load() has been rejected for the ceiling the counter is above
\* the ceiling for as long as no such manifest has been received, and while
\* it is, an invalid manifest rejects the invocation that receives it at
\* once, with no wait and no retry, whichever invocation that is.
C17_RejectsUntilReset ==
    /\ [][invalidManifestCounter > INVALID_MANIFEST_MAX_RETRIES =>
            \/ invalidManifestCounter' > INVALID_MANIFEST_MAX_RETRIES
            \/ /\ invalidManifestCounter' = 0
               /\ \E c \in Calls : Parses(c) /\ PassesValidity(ParsedBody(c))]_vars
    /\ []((\E c \in Calls : calls[c].err = "Invalid manifest") =>
            \/ invalidManifestCounter > INVALID_MANIFEST_MAX_RETRIES
            \/ SomeValidReceived)
    /\ [][\A c \in Calls :
            (/\ invalidManifestCounter > INVALID_MANIFEST_MAX_RETRIES
             /\ Parses(c)
             /\ CountedInvalid(ParsedBody(c)))
            => /\ calls'[c].pc = "rejected"
               /\ calls'[c].err = "Invalid manifest"
               /\ calls'[c].events = calls[c].events
               /\ invalidManifestCounter' = invalidManifestCounter + 1]_vars

\* After a load() was rejected for the ceiling, another load() has been
\* rejected by the first response it received, an invalid manifest.
C17_Witness ==
    \E c, d \in Calls :
        /\ c # d
        /\ calls[c].err = "Invalid manifest"
        /\ CountOf(calls[c].outcomes, "invalid") = INVALID_MANIFEST_MAX_RETRIES + 1
        /\ calls[d].err = "Invalid manifest"
        /\ calls[d].outcomes = <<"invalid">>
        /\ calls[d].events = <<"fetch">>
        /\ invalidManifestCounter = INVALID_MANIFEST_MAX_RETRIES + 2

\* C18: on a loader that was constructed, in either mode, nothing fails
\* with 'Failed to load entrypoint': a file-mode loader holds a manifest and
\* an entrypoints index, so that load() resolves with the manifest and is
\* never rejected, and createEntrypointLoader(name) throws nothing and
\* returns an accessor, for a name that is in the manifest or not.
C18_FailedToLoadEntrypointUnreachable ==
    /\ []("Failed to load entrypoint" \notin thrown)
    /\ [](\A c \in Calls : calls[c].err # "Failed to load entrypoint")
    /\ [](phase = "constructed" =>
            /\ thrown = {}
            /\ FileMode => (manifest # <<>> /\ entrypoints # <<>>))
    /\ [](FileMode =>
            \A c \in Calls : calls[c].pc = "resolved" /\ calls[c].err = "")
    /\ [][(phase = "constructed" /\ calls' = calls /\ phase' = phase) =>
            /\ thrown' = thrown
            /\ Cardinality(accessors') = Cardinality(accessors) + 1]_vars

\* On a file-mode loader a load() has resolved and an accessor was returned
\* for a name the manifest does not have.
C18_Witness ==
    /\ FileMode
    /\ phase = "constructed"
    /\ \E c \in Calls : calls[c].kind = "load" /\ calls[c].pc = "resolved"
    /\ \E a \in accessors : a.name = "absent"

----------------------------------------------------------------------------
TypeOK ==
    /\ phase \in {"new", "constructed", "failed"}
    /\ invalidManifestCounter \in 0..(MaxFetches + 1)
    /\ Len(calls) <= MaxCalls
    /\ fetches \in 0..MaxFetches
    /\ fileReads \in 0..1
    /\ serverReady \in BOOLEAN
====
